---- MODULE Spec2Model ----
(***************************************************************************)
(* Model of machanger.py: a command-line tool that reads an interface's    *)
(* MAC through `ifconfig`, records the first MAC it sees for the interface *)
(* in a JSON file, and shows, restores or sets the MAC.                    *)
(*                                                                         *)
(* The environment is the record file (CONFIG_FILE) and the interfaces'    *)
(* hardware addresses.  Each invocation of main is a process walking       *)
(* through the statements of main and of the functions it calls.  Every    *)
(* external command may exit 0, exit non-zero, or fail to launch           *)
(* (subprocess raises OSError); the commands issued are kept as a history. *)
(*                                                                         *)
(* The record file is absent, malformed, or a JSON object from interface   *)
(* names to strings or null; a file holding another JSON value, and errors *)
(* of the file system while the file is written, are outside the model.    *)
(* Invocations take a process slot; sequential invocations all take the    *)
(* first one.                                                              *)
(***************************************************************************)
EXTENDS Integers, Sequences, FiniteSets, TLC

VARIABLES
    file,          \* CONFIG_FILE on disk: [kind, pairs]
    hw,            \* hardware address of each interface (as ifconfig prints it)
    pc,            \* position of each invocation
    args,          \* argparse namespace of each invocation
    current_mac,   \* main: current_mac
    original_mac,  \* main: original_mac
    new_mac,       \* set_mac_address: new_mac
    config,        \* save_original_mac: config
    verify_mac,    \* set_mac_address: current_mac (the verification read)
    result,        \* return value of set_mac_address
    ret,           \* history: the last direct call of the store functions since
                   \* main last ran, and what it returned
    ret0,          \* history: the direct call before that
    cmds,          \* history: external commands issued by the invocation
    fileOps,       \* history: opens of CONFIG_FILE by the invocation
    hw0,           \* history: hw when the invocation started
    file0,         \* history: file when the invocation started
    firstRead,     \* history: first MAC main read for an interface
    initRecorded,  \* history: interfaces with an entry in the initial file
    runs,          \* number of invocations / API calls started
    gen_draws,     \* history: the values random.randint returned
    gen_mac,       \* generate_random_mac: mac (the list of bytes)
    gen_out        \* generate_random_mac: the characters of the returned string

vars == <<file, hw, pc, args, current_mac, original_mac, new_mac, config,
          verify_mac, result, ret, ret0, cmds, fileOps, hw0, file0, firstRead,
          initRecorded, runs,
          gen_draws, gen_mac, gen_out>>

-----------------------------------------------------------------------------
(* Bounds *)

MaxRuns == 2          \* invocations of main (or API calls) in one behaviour
MaxInitPairs == 1     \* members of the JSON object in the initial record file
MaxConcRuns == 3      \* invocations of main in one behaviour with overlapping runs

-----------------------------------------------------------------------------
(* Values *)

None == "None"        \* Python None, JSON null

Procs == {"p1", "p2"}

\* the process slot a new invocation takes when none is running
FirstProc == "p1"
Ifaces == {"eth0", "wlan0"}

FactoryMac == [i \in Ifaces |->
                 IF i = "eth0" THEN "00:11:22:33:44:55" ELSE "00:de:ad:be:ef:01"]

LowerMac == "02:aa:aa:aa:aa:aa"
UpperMac == "02:AA:AA:AA:AA:AA"

\* values --mac may take (None: option omitted)
MacArgs == {None, "", LowerMac, UpperMac}

\* the six random.randint(0, 255) results of one generate_random_mac call
SampleDraws == {<<255, 0, 171, 9, 16, 255>>}

\* MACs a direct caller hands to save_original_mac
ApiMacs == {"00:11:22:33:44:55", LowerMac}

\* random.randint(0, 255): the largest value drawn
MaxByte == 255

\* range(5): the bytes appended after the first
RestBytes == 5

\* the values the model draws for the appended bytes
SampleBytes == {0, 15, 171}

\* values found in a record file that this program did not write itself
InitVals == {"00:11:22:33:44:55", "", None}

\* Python truthiness of an optional string: `not v`
Falsy(v) == v = None \/ v = ""

-----------------------------------------------------------------------------
(* json / dict: a dict is a sequence of <<key, value>> pairs with distinct  *)
(* keys, in insertion order; a JSON object text is a sequence of members    *)
(* that may repeat a key.                                                   *)

Keys(d) == {d[n][1] : n \in 1..Len(d)}

Has(d, k) == k \in Keys(d)

\* dict.get(k): the value, or None
DictGet(d, k) ==
    IF Has(d, k) THEN LET n == CHOOSE n \in 1..Len(d) : d[n][1] = k IN d[n][2]
    ELSE None

\* d[k] = v
DictSet(d, k, v) ==
    IF Has(d, k) THEN [n \in 1..Len(d) |-> IF d[n][1] = k THEN <<k, v>> ELSE d[n]]
    ELSE Append(d, <<k, v>>)

RECURSIVE DictFromPairs(_)
\* json.load of an object: later members override earlier ones
DictFromPairs(ps) ==
    IF ps = <<>> THEN <<>>
    ELSE LET n == Len(ps) IN DictSet(DictFromPairs(SubSeq(ps, 1, n - 1)), ps[n][1], ps[n][2])

AbsentFile == [kind |-> "absent", pairs |-> <<>>]
CorruptFile == [kind |-> "corrupt", pairs |-> <<>>]
JsonFile(ps) == [kind |-> "json", pairs |-> ps]

\* os.path.exists(CONFIG_FILE)
Exists(f) == f.kind # "absent"

\* json.load(f) raises on malformed JSON
JsonLoadRaises_never(f) == FALSE

JsonLoadRaises(f) == f.kind = "corrupt"

\* json.load(f)
JsonLoad(f) == DictFromPairs(f.pairs)

\* json.dump(config, f) on a file opened with 'w'
JsonDump(d) == JsonFile(d)

-----------------------------------------------------------------------------
(* Original-MAC store, as functions of the file *)

\* save_original_mac, lines 55-60: the mapping the call starts from
LoadedConfig_empty(f) == <<>>

LoadedConfig(f) == IF Exists(f) THEN JsonLoad(f) ELSE <<>>

\* save_original_mac, lines 63-65: insert only when the key is absent
SaveInsert_overwrite(d, interface, mac) == DictSet(d, interface, mac)

SaveInsert(d, interface, mac) ==
    IF ~Has(d, interface) THEN DictSet(d, interface, mac) ELSE d

\* the file opens of a call that loads the file when it exists
LoadOps(f) == IF Exists(f) THEN <<"r">> ELSE <<>>

\* save_original_mac raises (and has not yet opened the file for writing)
SaveRaises(f) == Exists(f) /\ JsonLoadRaises(f)

\* the file after save_original_mac(interface, mac)
SaveOriginalMac(f, interface, mac) ==
    IF SaveRaises(f) THEN f
    ELSE JsonDump(SaveInsert(LoadedConfig(f), interface, mac))

\* get_original_mac raises
GetRaises(f) == Exists(f) /\ JsonLoadRaises(f)

\* get_original_mac(interface), when it does not raise
GetOriginalMac_first(f, interface) ==
    IF Exists(f) /\ f.pairs # <<>> THEN f.pairs[1][2] ELSE None

GetOriginalMac(f, interface) ==
    IF Exists(f) /\ ~JsonLoadRaises(f) THEN DictGet(JsonLoad(f), interface) ELSE None

-----------------------------------------------------------------------------
(* generate_random_mac *)

UnicastMask == 254     \* 0xFE
LocalAdminBit == 2     \* 0x02

RECURSIVE BitAnd(_, _)
\* a & b on non-negative Python ints
BitAnd(a, b) ==
    IF a = 0 \/ b = 0 THEN 0
    ELSE (IF a % 2 = 1 /\ b % 2 = 1 THEN 1 ELSE 0) + 2 * BitAnd(a \div 2, b \div 2)

RECURSIVE BitOr(_, _)
\* a | b on non-negative Python ints
BitOr(a, b) ==
    IF a = 0 THEN b
    ELSE IF b = 0 THEN a
    ELSE (IF a % 2 = 1 \/ b % 2 = 1 THEN 1 ELSE 0) + 2 * BitOr(a \div 2, b \div 2)

\* line 83: random.randint(0, 255) & 0xFE | 0x02
FirstByte_nomask(r) == BitOr(r, LocalAdminBit)

FirstByte(r) == BitOr(BitAnd(r, UnicastMask), LocalAdminBit)

HexDigits == <<"0", "1", "2", "3", "4", "5", "6", "7",
               "8", "9", "a", "b", "c", "d", "e", "f">>

RECURSIVE HexChars(_)
\* format(b, 'x'): the hex digits of b, most significant first
HexChars(b) ==
    IF b < 16 THEN <<HexDigits[b + 1]>>
    ELSE HexChars(b \div 16) \o <<HexDigits[(b % 16) + 1]>>

\* f"{b:02x}": zero-padded to at least two characters
Format02x_nopad(b) == HexChars(b)

Format02x(b) == LET h == HexChars(b) IN IF Len(h) < 2 THEN <<"0">> \o h ELSE h

RECURSIVE JoinColon(_)
\* ':'.join(parts), as a sequence of characters
JoinColon(parts) ==
    IF parts = <<>> THEN <<>>
    ELSE IF Len(parts) = 1 THEN parts[1]
    ELSE parts[1] \o <<":">> \o JoinColon(Tail(parts))

\* line 91: the characters of the returned string
FormatMac(mac) == JoinColon([n \in 1..Len(mac) |-> Format02x(mac[n])])

RECURSIVE Str(_)
\* a sequence of characters as a string
Str(chars) == IF chars = <<>> THEN "" ELSE chars[1] \o Str(Tail(chars))

\* lines 83-88: the list mac built from the six draws
MacBytes(draws) == <<FirstByte(draws[1])>> \o Tail(draws)

\* generate_random_mac() when random.randint returns draws[1..6] in turn
GenerateRandomMac(draws) == Str(FormatMac(MacBytes(draws)))

-----------------------------------------------------------------------------
(* ifconfig, the external command *)

\* `ifconfig <interface>`: exit 0 with an ether line, exit non-zero, exit 0
\* without an ether line, or the launch fails
ReadOutcomes == {"ok", "nonzero", "nopattern", "raise"}

\* `ifconfig <interface> down | hw ether <mac> | up`: exit 0 with the effect,
\* exit non-zero without it, or the launch fails
CmdOutcomes == {"ok", "fail", "raise"}

\* the address the interface shows after `hw ether t` succeeded
CanonMac(t) == IF t = UpperMac THEN LowerMac ELSE t

\* get_current_mac, lines 15-25, for a launch that did not raise
GetCurrentMac(o, shown) == IF o = "ok" THEN shown ELSE None

Cmd(op, interface, mac, status) ==
    [op |-> op, interface |-> interface, mac |-> mac, status |-> status]

-----------------------------------------------------------------------------
(* State *)

NoArgs == [interface |-> "eth0", mac |-> None, restore |-> FALSE, show |-> FALSE]

ArgSpace == [interface : Ifaces, mac : MacArgs, restore : BOOLEAN, show : BOOLEAN]

NoRet == [call |-> "none", interface |-> "eth0", mac |-> None, value |-> None,
          raised |-> FALSE, before |-> AbsentFile]

RECURSIVE SeqsUpTo(_, _)
\* the sequences over S of length at most n
SeqsUpTo(S, n) ==
    IF n = 0 THEN {<<>>}
    ELSE LET shorter == SeqsUpTo(S, n - 1)
         IN shorter \cup {Append(q, x) : q \in shorter, x \in S}

\* the record files an invocation may find
InitFiles ==
    {AbsentFile, CorruptFile}
        \cup {JsonFile(ps) : ps \in SeqsUpTo(Ifaces \X InitVals, MaxInitPairs)}

Resting == {"idle", "done", "crashed"}

Init ==
    /\ file \in InitFiles
    /\ hw = FactoryMac
    /\ pc = [p \in Procs |-> "idle"]
    /\ args = [p \in Procs |-> NoArgs]
    /\ current_mac = [p \in Procs |-> None]
    /\ original_mac = [p \in Procs |-> None]
    /\ new_mac = [p \in Procs |-> None]
    /\ config = [p \in Procs |-> <<>>]
    /\ verify_mac = [p \in Procs |-> None]
    /\ result = [p \in Procs |-> "unset"]
    /\ ret = NoRet
    /\ ret0 = NoRet
    /\ cmds = [p \in Procs |-> <<>>]
    /\ fileOps = [p \in Procs |-> <<>>]
    /\ hw0 = [p \in Procs |-> hw]
    /\ file0 = [p \in Procs |-> file]
    /\ firstRead = [i \in Ifaces |-> None]
    /\ initRecorded = IF file.kind = "json" THEN Keys(JsonLoad(file)) ELSE {}
    /\ runs = 0
    /\ gen_draws = <<>>
    /\ gen_mac = <<>>
    /\ gen_out = <<>>

envVars == <<file, hw>>
storeVars == <<ret, ret0>>
genVars == <<gen_draws, gen_mac, gen_out>>

-----------------------------------------------------------------------------
(* main *)

\* a new process runs main (lines 93-100); invocations are sequential
Start(p, a) ==
    /\ \A q \in Procs : pc[q] = "idle"
    /\ p = FirstProc
    /\ runs < MaxRuns
    /\ runs' = runs + 1
    /\ pc' = [pc EXCEPT ![p] = "read"]
    /\ args' = [args EXCEPT ![p] = a]
    /\ hw0' = [hw0 EXCEPT ![p] = hw]
    /\ file0' = [file0 EXCEPT ![p] = file]
    /\ ret' = NoRet
    /\ ret0' = NoRet
    /\ UNCHANGED <<envVars, genVars, current_mac, original_mac, new_mac,
                   config, verify_mac, result, cmds, fileOps, firstRead, initRecorded>>

\* line 103: `if not current_mac`
Unreadable_never(mac) == FALSE

Unreadable(mac) == Falsy(mac)

\* lines 102-105: current_mac = get_current_mac(args.interface)
ReadCurrent(p, o) ==
    /\ pc[p] = "read"
    /\ LET i == args[p].interface
           mac == GetCurrentMac(o, hw[i])
       IN /\ cmds' = [cmds EXCEPT ![p] = Append(@, Cmd("show", i, None, o))]
          /\ IF o = "raise"
             THEN /\ pc' = [pc EXCEPT ![p] = "crashed"]
                  /\ UNCHANGED <<current_mac, firstRead>>
             ELSE /\ current_mac' = [current_mac EXCEPT ![p] = mac]
                  /\ pc' = [pc EXCEPT ![p] = IF Unreadable(mac) THEN "done" ELSE "lookup"]
                  /\ firstRead' = IF ~Unreadable(mac) /\ firstRead[i] = None
                                  THEN [firstRead EXCEPT ![i] = mac]
                                  ELSE firstRead
    /\ UNCHANGED <<envVars, storeVars, genVars, args, original_mac, new_mac, config,
                   verify_mac, result, fileOps, hw0, file0, initRecorded, runs>>

\* lines 108-109: original_mac = get_original_mac(args.interface)
\* line 109: main saves only when the lookup gave nothing
FirstUse_always(original) == TRUE

FirstUse(original) == Falsy(original)

Lookup(p) ==
    /\ pc[p] = "lookup"
    /\ fileOps' = [fileOps EXCEPT ![p] = @ \o LoadOps(file)]
    /\ IF GetRaises(file)
       THEN /\ pc' = [pc EXCEPT ![p] = "crashed"]
            /\ UNCHANGED original_mac
       ELSE LET v == GetOriginalMac(file, args[p].interface)
            IN /\ original_mac' = [original_mac EXCEPT ![p] = v]
               /\ pc' = [pc EXCEPT ![p] = IF FirstUse(v) THEN "save_load" ELSE "dispatch"]
    /\ UNCHANGED <<envVars, storeVars, genVars, args, current_mac, new_mac, config,
                   verify_mac, result, cmds, hw0, file0, firstRead, initRecorded, runs>>

\* line 110, save_original_mac lines 55-65: load the mapping, insert if absent
SaveLoad(p) ==
    /\ pc[p] = "save_load"
    /\ fileOps' = [fileOps EXCEPT ![p] = @ \o LoadOps(file)]
    /\ IF SaveRaises(file)
       THEN /\ pc' = [pc EXCEPT ![p] = "crashed"]
            /\ UNCHANGED config
       ELSE /\ config' = [config EXCEPT ![p] =
                            SaveInsert(LoadedConfig(file), args[p].interface, current_mac[p])]
            /\ pc' = [pc EXCEPT ![p] = "save_write"]
    /\ UNCHANGED <<envVars, storeVars, genVars, args, current_mac, original_mac, new_mac,
                   verify_mac, result, cmds, hw0, file0, firstRead, initRecorded, runs>>

\* save_original_mac lines 68-69: write the mapping back; line 111
SaveWrite(p) ==
    /\ pc[p] = "save_write"
    /\ file' = JsonDump(config[p])
    /\ fileOps' = [fileOps EXCEPT ![p] = Append(@, "w")]
    /\ original_mac' = [original_mac EXCEPT ![p] = current_mac[p]]
    /\ pc' = [pc EXCEPT ![p] = "dispatch"]
    /\ UNCHANGED <<hw, storeVars, genVars, args, current_mac, new_mac, config,
                   verify_mac, result, cmds, hw0, file0, firstRead, initRecorded, runs>>

\* lines 113-125: which of the three actions the flags select
Selected_restoreFirst(a) ==
    IF a.restore THEN "restore" ELSE IF a.show THEN "show" ELSE "set"

Selected(a) ==
    IF a.show THEN "show" ELSE IF a.restore THEN "restore" ELSE "set"

\* lines 120 and 124: the MAC handed to set_mac_address
TargetMac_current(a, original, current, draws) ==
    IF Selected(a) = "restore" THEN current
    ELSE IF ~Falsy(a.mac) THEN a.mac ELSE GenerateRandomMac(draws)

TargetMac(a, original, current, draws) ==
    IF Selected(a) = "restore" THEN original
    ELSE IF ~Falsy(a.mac) THEN a.mac ELSE GenerateRandomMac(draws)

\* lines 113-125: show and return, or call set_mac_address
Dispatch(p, draws) ==
    /\ pc[p] = "dispatch"
    /\ IF Selected(args[p]) = "show"
       THEN /\ pc' = [pc EXCEPT ![p] = "done"]
            /\ UNCHANGED new_mac
       ELSE /\ new_mac' = [new_mac EXCEPT ![p] =
                             TargetMac(args[p], original_mac[p], current_mac[p], draws)]
            /\ pc' = [pc EXCEPT ![p] = "w_down"]
    /\ UNCHANGED <<envVars, storeVars, genVars, args, current_mac, original_mac, config,
                   verify_mac, result, cmds, fileOps, hw0, file0, firstRead,
                   initRecorded, runs>>

-----------------------------------------------------------------------------
(* set_mac_address *)

\* lines 31-51: the statement after `step`; an exit status is not looked at
\* (subprocess.call), an exception leaves the try block and returns False
WriterNext_checked(step, o) ==
    IF o # "ok" THEN "done"
    ELSE CASE step = "w_down" -> "w_set"
           [] step = "w_set" -> "w_up"
           [] step = "w_up" -> "w_verify"
           [] OTHER -> "done"

WriterNext(step, o) ==
    IF o = "raise" THEN "done"
    ELSE CASE step = "w_down" -> "w_set"
           [] step = "w_set" -> "w_up"
           [] step = "w_up" -> "w_verify"
           [] OTHER -> "done"

\* line 43: current_mac == new_mac
Verified_nocase(read, target) == CanonMac(read) = CanonMac(target)

Verified(read, target) == read = target

\* the value set_mac_address returns when it returns at `step` with outcome o
Returned(step, o, read, target) ==
    IF o = "raise" THEN "False"
    ELSE IF step = "w_verify" THEN (IF Verified(read, target) THEN "True" ELSE "False")
    ELSE "unset"

\* line 33: subprocess.call(["ifconfig", interface, "down"])
WriterDown(p, o) ==
    /\ pc[p] = "w_down"
    /\ LET i == args[p].interface
       IN cmds' = [cmds EXCEPT ![p] = Append(@, Cmd("down", i, None, o))]
    /\ pc' = [pc EXCEPT ![p] = WriterNext("w_down", o)]
    /\ result' = [result EXCEPT ![p] = Returned("w_down", o, None, new_mac[p])]
    /\ UNCHANGED <<envVars, storeVars, genVars, args, current_mac, original_mac, new_mac,
                   config, verify_mac, fileOps, hw0, file0, firstRead, initRecorded, runs>>

\* line 36: subprocess.call(["ifconfig", interface, "hw", "ether", new_mac])
WriterSet(p, o) ==
    /\ pc[p] = "w_set"
    /\ LET i == args[p].interface
       IN /\ cmds' = [cmds EXCEPT ![p] = Append(@, Cmd("hw", i, new_mac[p], o))]
          /\ hw' = IF o = "ok" THEN [hw EXCEPT ![i] = CanonMac(new_mac[p])] ELSE hw
    /\ pc' = [pc EXCEPT ![p] = WriterNext("w_set", o)]
    /\ result' = [result EXCEPT ![p] = Returned("w_set", o, None, new_mac[p])]
    /\ UNCHANGED <<file, storeVars, genVars, args, current_mac, original_mac, new_mac,
                   config, verify_mac, fileOps, hw0, file0, firstRead, initRecorded, runs>>

\* line 39: subprocess.call(["ifconfig", interface, "up"])
WriterUp(p, o) ==
    /\ pc[p] = "w_up"
    /\ LET i == args[p].interface
       IN cmds' = [cmds EXCEPT ![p] = Append(@, Cmd("up", i, None, o))]
    /\ pc' = [pc EXCEPT ![p] = WriterNext("w_up", o)]
    /\ result' = [result EXCEPT ![p] = Returned("w_up", o, None, new_mac[p])]
    /\ UNCHANGED <<envVars, storeVars, genVars, args, current_mac, original_mac, new_mac,
                   config, verify_mac, fileOps, hw0, file0, firstRead, initRecorded, runs>>

\* lines 42-48: current_mac = get_current_mac(interface); compare; return
WriterVerify(p, o) ==
    /\ pc[p] = "w_verify"
    /\ LET i == args[p].interface
           read == GetCurrentMac(o, hw[i])
       IN /\ cmds' = [cmds EXCEPT ![p] = Append(@, Cmd("show", i, None, o))]
          /\ verify_mac' = [verify_mac EXCEPT ![p] = read]
          /\ result' = [result EXCEPT ![p] = Returned("w_verify", o, read, new_mac[p])]
    /\ pc' = [pc EXCEPT ![p] = WriterNext("w_verify", o)]
    /\ UNCHANGED <<envVars, storeVars, genVars, args, current_mac, original_mac, new_mac,
                   config, fileOps, hw0, file0, firstRead, initRecorded, runs>>

\* main has returned (lines 105, 116, 121, 125) or died of an unhandled
\* exception: the process exits and its memory is gone
Exit(p) ==
    /\ pc[p] \in {"done", "crashed"}
    /\ pc' = [pc EXCEPT ![p] = "idle"]
    /\ args' = [args EXCEPT ![p] = NoArgs]
    /\ current_mac' = [current_mac EXCEPT ![p] = None]
    /\ original_mac' = [original_mac EXCEPT ![p] = None]
    /\ new_mac' = [new_mac EXCEPT ![p] = None]
    /\ config' = [config EXCEPT ![p] = <<>>]
    /\ verify_mac' = [verify_mac EXCEPT ![p] = None]
    /\ result' = [result EXCEPT ![p] = "unset"]
    /\ cmds' = [cmds EXCEPT ![p] = <<>>]
    /\ fileOps' = [fileOps EXCEPT ![p] = <<>>]
    /\ hw0' = [hw0 EXCEPT ![p] = hw]
    /\ file0' = [file0 EXCEPT ![p] = file]
    /\ UNCHANGED <<envVars, storeVars, genVars, firstRead, initRecorded, runs>>

-----------------------------------------------------------------------------
(* Specification: sequential invocations of main *)

Next ==
    \/ \E p \in Procs, a \in ArgSpace : Start(p, a)
    \/ \E p \in Procs, o \in ReadOutcomes : ReadCurrent(p, o)
    \/ \E p \in Procs : Lookup(p)
    \/ \E p \in Procs : SaveLoad(p)
    \/ \E p \in Procs : SaveWrite(p)
    \/ \E p \in Procs, draws \in SampleDraws : Dispatch(p, draws)
    \/ \E p \in Procs, o \in CmdOutcomes : WriterDown(p, o)
    \/ \E p \in Procs, o \in CmdOutcomes : WriterSet(p, o)
    \/ \E p \in Procs, o \in CmdOutcomes : WriterUp(p, o)
    \/ \E p \in Procs, o \in ReadOutcomes : WriterVerify(p, o)
    \/ \E p \in Procs : Exit(p)

Spec == Init /\ [][Next]_vars

-----------------------------------------------------------------------------
(* Direct calls of the store functions (by a caller importing the module)   *)

Call(name, interface, mac, value, raised) ==
    [call |-> name, interface |-> interface, mac |-> mac, value |-> value,
     raised |-> raised, before |-> file]

\* save_original_mac(interface, mac), lines 53-69
ApiSave(interface, mac) ==
    /\ \A q \in Procs : pc[q] = "idle"
    /\ runs < MaxRuns
    /\ runs' = runs + 1
    /\ file' = SaveOriginalMac(file, interface, mac)
    /\ ret' = Call("save", interface, mac, None, SaveRaises(file))
    /\ ret0' = ret
    /\ UNCHANGED <<hw, genVars, pc, args, current_mac, original_mac, new_mac, config,
                   verify_mac, result, cmds, fileOps, hw0, file0, firstRead, initRecorded>>

\* get_original_mac(interface), lines 71-77
ApiGet(interface) ==
    /\ \A q \in Procs : pc[q] = "idle"
    /\ runs < MaxRuns
    /\ runs' = runs + 1
    /\ ret' = Call("get", interface, None,
                   IF GetRaises(file) THEN None ELSE GetOriginalMac(file, interface),
                   GetRaises(file))
    /\ ret0' = ret
    /\ UNCHANGED <<envVars, genVars, pc, args, current_mac, original_mac, new_mac, config,
                   verify_mac, result, cmds, fileOps, hw0, file0, firstRead, initRecorded>>

NextStore ==
    \/ \E i \in Ifaces, m \in ApiMacs : ApiSave(i, m)
    \/ \E i \in Ifaces : ApiGet(i)

SpecStore == Init /\ [][NextStore]_vars

\* invocations of main and direct calls of the store, one after the other
NextAll == Next \/ NextStore

SpecAll == Init /\ [][NextAll]_vars

-----------------------------------------------------------------------------
(* generate_random_mac, statement by statement *)

\* lines 83-84: first_byte = random.randint(0, 255) & 0xFE | 0x02; mac = [first_byte]
GenFirst(r) ==
    /\ gen_draws = <<>>
    /\ gen_draws' = <<r>>
    /\ gen_mac' = <<FirstByte(r)>>
    /\ UNCHANGED <<envVars, storeVars, gen_out, pc, args, current_mac, original_mac,
                   new_mac, config, verify_mac, result, cmds, fileOps, hw0, file0,
                   firstRead, initRecorded, runs>>

\* lines 87-88: mac.append(random.randint(0, 255))
GenAppend(r) ==
    /\ gen_draws # <<>>
    /\ Len(gen_mac) < 1 + RestBytes
    /\ gen_draws' = Append(gen_draws, r)
    /\ gen_mac' = Append(gen_mac, r)
    /\ UNCHANGED <<envVars, storeVars, gen_out, pc, args, current_mac, original_mac,
                   new_mac, config, verify_mac, result, cmds, fileOps, hw0, file0,
                   firstRead, initRecorded, runs>>

\* line 91: return ':'.join(f"{b:02x}" for b in mac)
GenFormat ==
    /\ Len(gen_mac) = 1 + RestBytes
    /\ gen_out = <<>>
    /\ gen_out' = FormatMac(gen_mac)
    /\ UNCHANGED <<envVars, storeVars, gen_draws, gen_mac, pc, args, current_mac,
                   original_mac, new_mac, config, verify_mac, result, cmds, fileOps,
                   hw0, file0, firstRead, initRecorded, runs>>

InitGen == Init /\ file = AbsentFile

NextGen ==
    \/ \E r \in 0..MaxByte : GenFirst(r)
    \/ \E r \in SampleBytes : GenAppend(r)
    \/ GenFormat

SpecGen == InitGen /\ [][NextGen]_vars

-----------------------------------------------------------------------------
(* Vocabulary of the properties *)

\* the record file holds an entry for interface i
RecordHas(f, i) == f.kind = "json" /\ Has(JsonLoad(f), i)

\* the value the record file stores for interface i
Stored(f, i) == DictGet(JsonLoad(f), i)

\* two dicts are the same mapping
SameMapping(d, e) == Keys(d) = Keys(e) /\ \A k \in Keys(d) : DictGet(d, k) = DictGet(e, k)

\* main has called set_mac_address in invocation p
WriterInvoked(p) == new_mac[p] # None

\* set_mac_address has returned in invocation p
WriterReturned(p) == WriterInvoked(p) /\ pc[p] = "done"

\* the commands set_mac_address issued (main's own read comes first in cmds)
WriterCmds(p) == Tail(cmds[p])

Ops(cs) == [n \in 1..Len(cs) |-> cs[n].op]

Statuses(cs) == {cs[n].status : n \in 1..Len(cs)}

WriterOrder == <<"down", "hw", "up", "show">>

Mutating == {"down", "hw", "up"}

-----------------------------------------------------------------------------
C2_RestoreFirstObserved ==
    \A p \in Procs :
        LET i == args[p].interface
        IN (Selected(args[p]) = "restore" /\ WriterInvoked(p) /\ i \notin initRecorded)
              => /\ firstRead[i] # None
                 /\ new_mac[p] = firstRead[i]
                 /\ \A n \in 1..Len(WriterCmds(p)) :
                        WriterCmds(p)[n].op = "hw" => WriterCmds(p)[n].mac = firstRead[i]
                 /\ pc[p] = "done" =>
                        (result[p] = "True" <=> verify_mac[p] = firstRead[i])

\* a restore that succeeded after the interface had been set to another MAC
C2_Witness ==
    \E p \in Procs :
        LET i == args[p].interface
        IN /\ pc[p] = "done"
           /\ Selected(args[p]) = "restore"
           /\ i \notin initRecorded
           /\ result[p] = "True"
           /\ hw0[p][i] # firstRead[i]
           /\ hw[i] = firstRead[i]

C5_VerificationDecides ==
    \A p \in Procs :
        WriterReturned(p) =>
            LET cs == WriterCmds(p)
                last == cs[Len(cs)]
                i == args[p].interface
            IN /\ result[p] \in {"True", "False"}
               /\ result[p] = "True" <=>
                      (last.op = "show" /\ last.status = "ok" /\ verify_mac[p] = new_mac[p])
               /\ (last.op = "show" /\ last.status \in {"nonzero", "nopattern"})
                     => result[p] = "False"
               /\ (/\ last.op = "show" /\ last.status = "ok"
                   /\ \E n \in 1..Len(cs) : cs[n].op = "hw" /\ cs[n].status = "fail"
                   /\ hw[i] = new_mac[p])
                     => result[p] = "True"

\* the set command failed, the interface already showed the target, and the
\* Writer returned True
C5_Witness ==
    \E p \in Procs :
        LET cs == WriterCmds(p)
        IN /\ WriterReturned(p)
           /\ Ops(cs) = WriterOrder
           /\ cs[1].status = "fail" /\ cs[2].status = "fail" /\ cs[3].status = "fail"
           /\ hw0[p][args[p].interface] = new_mac[p]
           /\ result[p] = "True"

(* C6 as claimed: every execution of set_mac_address issues down, set, up   *)
(* and the read, in that order, each once, before it returns.               *)
C6_AlwaysAllFour ==
    \A p \in Procs : WriterReturned(p) => Ops(WriterCmds(p)) = WriterOrder

(* C6, amended: set_mac_address issues down, set-hardware-address, up and   *)
(* the read in that order, each at most once and with no retry, whatever    *)
(* the exit statuses; it issues all four unless launching one of them       *)
(* raises, and then it issues nothing more and returns False, so an         *)
(* interface brought down is brought up again only if the set command       *)
(* could be launched.                                                       *)
C6_OrderUnlessRaise ==
    \A p \in Procs :
        WriterInvoked(p) =>
            LET cs == WriterCmds(p)
                i == args[p].interface
            IN /\ Len(cs) <= Len(WriterOrder)
               /\ Ops(cs) = SubSeq(WriterOrder, 1, Len(cs))
               /\ \A n \in 1..Len(cs) :
                      /\ cs[n].interface = i
                      /\ cs[n].op = "hw" => cs[n].mac = new_mac[p]
                      /\ cs[n].status = "raise" => n = Len(cs) /\ pc[p] = "done"
               /\ pc[p] = "done" =>
                      IF "raise" \in Statuses(cs)
                      THEN result[p] = "False"
                      ELSE Ops(cs) = WriterOrder

\* down, set and up all exited non-zero and the Writer still issued all four
C6_Witness ==
    \E p \in Procs :
        LET cs == WriterCmds(p)
        IN /\ WriterReturned(p)
           /\ Ops(cs) = WriterOrder
           /\ cs[1].status = "fail" /\ cs[2].status = "fail" /\ cs[3].status = "fail"
           /\ cs[4].status = "nonzero"
           /\ result[p] = "False"

(* C7: show never mutates and wins over restore.  An invocation with --show *)
(* issues no down, set or up command, never calls the Writer and leaves the *)
(* interfaces' MACs as they were, whatever --restore and --mac are.         *)
C7_ShowNeverMutates ==
    \A p \in Procs :
        (pc[p] # "idle" /\ args[p].show) =>
            /\ \A n \in 1..Len(cmds[p]) : cmds[p][n].op \notin Mutating
            /\ Len(cmds[p]) <= 1
            /\ ~WriterInvoked(p)
            /\ result[p] = "unset"
            /\ hw = hw0[p]
            /\ (pc[p] = "done" /\ current_mac[p] # None) =>
                   LET i == args[p].interface
                       stored == GetOriginalMac(file0[p], i)
                   IN /\ current_mac[p] = hw[i]
                      /\ original_mac[p] = IF Falsy(stored) THEN current_mac[p] ELSE stored
                      /\ file = IF Falsy(stored)
                                THEN SaveOriginalMac(file0[p], i, current_mac[p])
                                ELSE file0[p]

\* --show together with --restore on an interface whose MAC differs from
\* the stored original: the run ends having only read
C7_Witness ==
    \E p \in Procs :
        LET i == args[p].interface
        IN /\ pc[p] = "done"
           /\ args[p].show /\ args[p].restore
           /\ ~Falsy(original_mac[p])
           /\ current_mac[p] # original_mac[p]
           /\ hw[i] = current_mac[p]

(* C8: a failed first read aborts before any effect.  When main's read of   *)
(* the current MAC exits non-zero or shows no MAC, the invocation returns   *)
(* having neither opened the record file nor issued another command, for    *)
(* all flags.                                                               *)
C8_ReadFailureAborts ==
    \A p \in Procs :
        (/\ pc[p] \notin {"idle", "read"}
         /\ cmds[p][1].status \in {"nonzero", "nopattern"})
            => /\ pc[p] = "done"
               /\ current_mac[p] = None
               /\ fileOps[p] = <<>>
               /\ Len(cmds[p]) = 1
               /\ file = file0[p]
               /\ hw = hw0[p]
               /\ ~WriterInvoked(p)

\* a --restore run on an interface without an entry whose read shows no MAC
C8_Witness ==
    \E p \in Procs :
        /\ pc[p] = "done"
        /\ args[p].restore /\ ~args[p].show
        /\ cmds[p][1].status = "nopattern"
        /\ ~RecordHas(file, args[p].interface)
        /\ file.kind = "json"

(* C9: a corrupt record file is fatal and nothing is done.  When the file  *)
(* is not valid JSON, an invocation whose current MAC is readable dies of   *)
(* the unhandled error at the record lookup, having issued no command but   *)
(* its read and with the file as it was; and a direct save_original_mac     *)
(* raises and leaves the file as it was.                                    *)
C9_CorruptionFatal ==
    /\ \A p \in Procs :
           (/\ file0[p].kind = "corrupt"
            /\ pc[p] \notin {"idle", "read", "lookup"}
            /\ current_mac[p] # None)
               => /\ pc[p] = "crashed"
                  /\ fileOps[p] = <<"r">>
                  /\ Len(cmds[p]) = 1
                  /\ ~WriterInvoked(p)
                  /\ result[p] = "unset"
                  /\ file = file0[p]
                  /\ hw = hw0[p]
    /\ (ret.call = "save" /\ ret.before.kind = "corrupt")
          => ret.raised /\ file = ret.before

\* a direct save on the corrupt file raised
C9_SaveRaised == ret.call = "save" /\ ret.raised /\ file.kind = "corrupt"

\* a run that was to set a MAC died at the lookup of the corrupt file
C9_Witness ==
    \E p \in Procs :
        /\ pc[p] = "crashed"
        /\ file.kind = "corrupt"
        /\ Selected(args[p]) = "set"
        /\ current_mac[p] = hw[args[p].interface]
        /\ fileOps[p] = <<"r">>

-----------------------------------------------------------------------------
(* Reading a rendered MAC back *)

HexVal(c) == (CHOOSE n \in 1..Len(HexDigits) : HexDigits[n] = c) - 1

\* the value of the k-th two-character group of a rendered MAC (k from 0)
GroupVal(chars, k) == 16 * HexVal(chars[3 * k + 1]) + HexVal(chars[3 * k + 2])

LowerHex == {HexDigits[n] : n \in 1..Len(HexDigits)}

(* C10: the random MAC policy.  For every first draw r0 in 0..255 and the   *)
(* sampled later draws, the list's first byte has bit 0 clear, bit 1 set    *)
(* and the other bits of r0, the other five bytes are the draws unchanged,  *)
(* and the returned string is 17 characters: six groups of two lowercase    *)
(* hex digits that read back as those bytes, joined by colons.              *)
C10_RandomMacPolicy ==
    /\ gen_mac # <<>> =>
          /\ gen_mac[1] % 2 = 0
          /\ (gen_mac[1] \div 2) % 2 = 1
          /\ gen_mac[1] \div 4 = gen_draws[1] \div 4
          /\ gen_mac[1] \in 0..MaxByte
          /\ \A n \in 2..Len(gen_mac) : gen_mac[n] = gen_draws[n]
    /\ gen_out # <<>> =>
          /\ Len(gen_out) = 17
          /\ Len(Str(gen_out)) = 17
          /\ \A n \in 1..Len(gen_out) :
                 IF n % 3 = 0 THEN gen_out[n] = ":" ELSE gen_out[n] \in LowerHex
          /\ \A k \in 0..RestBytes : GroupVal(gen_out, k) = gen_mac[k + 1]
          /\ Str(gen_out) = GenerateRandomMac(gen_draws)

\* the first draw had both low bits to fix, and a later byte needed padding
C10_Witness ==
    /\ gen_out # <<>>
    /\ gen_draws[1] = 253
    /\ gen_mac[1] = 254
    /\ gen_draws[2] = 15
    /\ gen_draws[3] = 171
    /\ SubSeq(gen_out, 1, 8) = <<"f", "e", ":", "0", "f", ":", "a", "b">>

-----------------------------------------------------------------------------
(* Specification: invocations of main that may overlap.  Nothing locks      *)
(* CONFIG_FILE, so the steps of two processes interleave freely.            *)

\* the command lines of the overlapping runs: each sets an explicit MAC
ConcArgs == [interface : Ifaces, mac : {LowerMac}, restore : {FALSE}, show : {FALSE}]

\* in the overlapping runs every command succeeds: the race is on the file
ConcReadOutcomes == {"ok"}
ConcCmdOutcomes == {"ok"}

\* a new process runs main (lines 93-100) while another may be running
StartConc(p, a) ==
    /\ pc[p] = "idle"
    /\ runs < MaxConcRuns
    /\ runs' = runs + 1
    /\ pc' = [pc EXCEPT ![p] = "read"]
    /\ args' = [args EXCEPT ![p] = a]
    /\ hw0' = [hw0 EXCEPT ![p] = hw]
    /\ file0' = [file0 EXCEPT ![p] = file]
    /\ UNCHANGED <<envVars, storeVars, genVars, current_mac, original_mac, new_mac,
                   config, verify_mac, result, cmds, fileOps, firstRead, initRecorded>>

NextConc ==
    \/ \E p \in Procs, a \in ConcArgs : StartConc(p, a)
    \/ \E p \in Procs, o \in ConcReadOutcomes : ReadCurrent(p, o)
    \/ \E p \in Procs : Lookup(p)
    \/ \E p \in Procs : SaveLoad(p)
    \/ \E p \in Procs : SaveWrite(p)
    \/ \E p \in Procs, draws \in SampleDraws : Dispatch(p, draws)
    \/ \E p \in Procs, o \in ConcCmdOutcomes : WriterDown(p, o)
    \/ \E p \in Procs, o \in ConcCmdOutcomes : WriterSet(p, o)
    \/ \E p \in Procs, o \in ConcCmdOutcomes : WriterUp(p, o)
    \/ \E p \in Procs, o \in ConcReadOutcomes : WriterVerify(p, o)
    \/ \E p \in Procs : Exit(p)

SpecConc == Init /\ [][NextConc]_vars

\* invocation p takes its load step / its write step of save_original_mac
LoadStep(p) == pc[p] = "save_load" /\ pc'[p] = "save_write"

WriteStep(p) == pc[p] = "save_write" /\ pc'[p] = "dispatch"

(* C11: nothing locks the record file, so updates can be lost.  With        *)
(* overlapping invocations, the load step keeps in memory the entries the   *)
(* file holds then plus the invocation's own; the write step makes the file *)
(* exactly that mapping, dropping every entry written since the load (the   *)
(* last writer wins); and an entry leaves the file in no other way.         *)
C11_LastWriterWins ==
    [][/\ \A p \in Procs :
              LoadStep(p) =>
                  LET i == args[p].interface
                      d == IF Exists(file) THEN JsonLoad(file) ELSE <<>>
                  IN /\ Keys(config'[p]) = Keys(d) \cup {i}
                     /\ \A k \in Keys(d) : DictGet(config'[p], k) = DictGet(d, k)
                     /\ ~Has(d, i) => DictGet(config'[p], i) = current_mac[p]
       /\ \A p \in Procs :
              WriteStep(p) =>
                  /\ file'.kind = "json"
                  /\ SameMapping(JsonLoad(file'), config[p])
                  /\ \A i \in Ifaces :
                         (RecordHas(file, i) /\ ~Has(config[p], i)) => ~RecordHas(file', i)
       /\ \A i \in Ifaces :
              (RecordHas(file, i) /\ ~RecordHas(file', i))
                  => \E p \in Procs : WriteStep(p) /\ ~Has(config[p], i)]_vars

\* two first-use runs on different interfaces have ended, both wrote the
\* file, and only one interface is recorded
C11_LostUpdate ==
    /\ \A p \in Procs : pc[p] = "done" /\ fileOps[p] = <<"w">>
    /\ \E p, q \in Procs :
           /\ args[p].interface # args[q].interface
           /\ ~RecordHas(file, args[p].interface)
           /\ RecordHas(file, args[q].interface)

\* after a lost update: a later run found no entry for the interface it had
\* first read with another MAC, and recorded the changed MAC as the original
C11_Witness ==
    \E p \in Procs :
        LET i == args[p].interface
        IN /\ pc[p] = "done"
           /\ i \notin initRecorded
           /\ file0[p].kind = "json"
           /\ ~RecordHas(file0[p], i)
           /\ fileOps[p] = <<"r", "r", "w">>
           /\ firstRead[i] = FactoryMac[i]
           /\ current_mac[p] = LowerMac
           /\ original_mac[p] = LowerMac
           /\ Stored(file, i) = LowerMac

-----------------------------------------------------------------------------
\* invocation p is past the preamble of main (lines 102-111)
PreambleDone(p) ==
    \/ pc[p] \in {"dispatch", "w_down", "w_set", "w_up", "w_verify"}
    \/ pc[p] = "done" /\ current_mac[p] # None

-----------------------------------------------------------------------------
\* m is what generate_random_mac returns for some draws, and its first byte
\* is locally administered (bit 1 set) and unicast (bit 0 clear)
FreshLocalUnicast(m) ==
    \E d \in SampleDraws :
        LET chars == FormatMac(MacBytes(d))
            b0 == GroupVal(chars, 0)
        IN m = Str(chars) /\ b0 % 2 = 0 /\ (b0 \div 2) % 2 = 1

\* main has dispatched in invocation p with neither --show nor --restore
SetDispatched(p) ==
    /\ Selected(args[p]) = "set"
    /\ PreambleDone(p)
    /\ pc[p] # "dispatch"

\* set_mac_address was entered at most once: one down command at most
OneWriterCall(p) ==
    Cardinality({n \in 1..Len(cmds[p]) : cmds[p][n].op = "down"}) <= 1

(* C13: action selection without --show and --restore.  Once the preamble   *)
(* has succeeded the Writer is called once, with the --mac value as it was  *)
(* given when one was supplied, and otherwise with a freshly generated      *)
(* locally administered unicast MAC; the generator's value is never used    *)
(* when --mac was supplied.                                                 *)
C13_ActionSelection ==
    \A p \in Procs :
        SetDispatched(p) =>
            /\ WriterInvoked(p)
            /\ OneWriterCall(p)
            /\ args[p].mac # None => new_mac[p] = args[p].mac
            /\ args[p].mac = None => FreshLocalUnicast(new_mac[p])

(* C13 where it holds: the same, for a --mac value that is not the empty    *)
(* string; an empty --mac value is treated as if the option were omitted.   *)
C13_NonEmptyMac ==
    \A p \in Procs :
        SetDispatched(p) =>
            /\ WriterInvoked(p)
            /\ OneWriterCall(p)
            /\ ~Falsy(args[p].mac) => new_mac[p] = args[p].mac
            /\ Falsy(args[p].mac) => FreshLocalUnicast(new_mac[p])
            /\ \A n \in 1..Len(WriterCmds(p)) :
                   WriterCmds(p)[n].op = "hw" => WriterCmds(p)[n].mac = new_mac[p]

\* --mac with an upper-case value: the Writer was given it unchanged
C13_Explicit ==
    \E p \in Procs :
        /\ SetDispatched(p)
        /\ pc[p] = "done"
        /\ args[p].mac = UpperMac
        /\ new_mac[p] = UpperMac

-----------------------------------------------------------------------------
\* the interfaces the record file holds an entry for
Recorded(f) == IF f.kind = "json" THEN Keys(JsonLoad(f)) ELSE {}

\* file g is file f but for the entry of interface i
SameButFor(f, g, i) ==
    /\ Recorded(g) \ {i} = Recorded(f) \ {i}
    /\ \A j \in Recorded(f) \ {i} : Stored(g, j) = Stored(f, j)

(* C14: save_original_mac(i, m) preserves every other interface's entry.   *)
(* After a direct call, and after the call main makes, the keys other than  *)
(* i are those the file held before, with the same values, and i is in the  *)
(* file; an invocation that does not save leaves the file as it was.        *)
C14_SavePreservesOthers ==
    /\ (ret.call = "save" /\ ~ret.raised)
          => /\ SameButFor(ret.before, file, ret.interface)
             /\ RecordHas(file, ret.interface)
    /\ \A p \in Procs :
           pc[p] # "idle" =>
               /\ SameButFor(file0[p], file, args[p].interface)
               /\ "w" \in {fileOps[p][n] : n \in 1..Len(fileOps[p])}
                     => RecordHas(file, args[p].interface)
               /\ "w" \notin {fileOps[p][n] : n \in 1..Len(fileOps[p])}
                     => file = file0[p]

\* first-use runs on two interfaces, one after the other: the second has
\* written its entry and the first one's entry is still there
C14_Witness ==
    \E p \in Procs :
        LET i == args[p].interface
        IN /\ pc[p] = "done"
           /\ fileOps[p] = <<"r", "r", "w">>
           /\ initRecorded = {}
           /\ Recorded(file0[p]) = Ifaces \ {i}
           /\ Recorded(file) = Ifaces
           /\ \A j \in Ifaces : Stored(file, j) = FactoryMac[j]

-----------------------------------------------------------------------------
\* how many times invocation p has opened the record file for writing
Writes(p) == Cardinality({n \in 1..Len(fileOps[p]) : fileOps[p][n] = "w"})

\* the lookup of invocation p has returned a non-empty stored original
LookupFound(p) ==
    /\ pc[p] \notin {"idle", "read", "lookup"}
    /\ current_mac[p] # None
    /\ RecordHas(file0[p], args[p].interface)
    /\ Stored(file0[p], args[p].interface) \notin {None, ""}

(* C15: the record file is written only on first use. An invocation whose  *)
(* lookup returned a non-empty stored original never opens the record file  *)
(* for writing, whatever the mode and the Writer's outcome, and the file is *)
(* as the invocation found it; every invocation writes it at most once.     *)
C15_WriteOnlyOnFirstUse ==
    \A p \in Procs :
        /\ Writes(p) <= 1
        /\ LookupFound(p) => (Writes(p) = 0 /\ file = file0[p])

\* a set run on a recorded interface, the Writer having failed, wrote nothing
C15_Witness ==
    \E p \in Procs :
        /\ LookupFound(p)
        /\ Selected(args[p]) = "set"
        /\ WriterReturned(p)
        /\ result[p] = "False"
        /\ fileOps[p] = <<"r">>

\* a first-use run has written the record file exactly once
C15_FirstUseWrote ==
    \E p \in Procs : pc[p] = "done" /\ ~LookupFound(p) /\ Writes(p) = 1

=============================================================================
